---- MODULE Spec2Model ----
(***************************************************************************)
(* PayPal2CSV.py: the statement parser (PayPalPDFParser.parse), the payee  *)
(* extractor (PayeeExtractor) and the entry point (parse_paypal_pdf).      *)
(* Text is a sequence of one-character strings, so that the regular        *)
(* expressions of the source are computed character by character.          *)
(***************************************************************************)
EXTENDS Integers, Sequences, FiniteSets, TLC

\* ------------------------------------------------------------------ text
\* U+2022, the bullet the source strips and splits on.
BULLET == "U+2022"

Digit == {"0","1","2","3","4","5","6","7","8","9"}

UpperSeq == <<"A","B","C","D","E","F","G","H","I","J","K","L","M","N","O","P","Q","R","S","T","U","V","W","X","Y","Z">>

LowerSeq == <<"a","b","c","d","e","f","g","h","i","j","k","l","m","n","o","p","q","r","s","t","u","v","w","x","y","z">>

Upper == {UpperSeq[i] : i \in 1..26}

Lower == {LowerSeq[i] : i \in 1..26}

\* \w of the re module, on the characters the model uses.
WordChar == Digit \cup Upper \cup Lower \cup {"_"}

\* \s of the re module and the whitespace of str.strip / str.split.
WhiteSpace == {" ", "\t"}

LowerOf == [c \in Upper |-> LowerSeq[CHOOSE i \in 1..26 : UpperSeq[i] = c]]

\* str.lower, one character.
ToLower(c) == IF c \in Upper THEN LowerOf[c] ELSE c

\* Body applied to the value of an expression: the bound variable holds
\* the value, so the expression is computed once however often Body reads
\* it.  The operators below bind what they loop over.
Bind(value, Body(_)) == CHOOSE r \in {Body(x) : x \in {value}} : TRUE

\* The least and the greatest element of a non-empty set of integers.
Least(set) == CHOOSE j \in set : \A k \in set : j <= k

Greatest(set) == CHOOSE j \in set : \A k \in set : j >= k

\* str.lower
LowerStr(text) ==
    Bind(text, LAMBDA s : SubSeq([k \in 1..Len(s) |-> ToLower(s[k])], 1, Len(s)))

\* s[i-1:] of Python, i counted from 1.
From(text, i) == Bind(text, LAMBDA s : SubSeq(s, i, Len(s)))

\* p occurs in s at position i (s and p are values).
MatchAt(s, i, p) ==
    /\ i >= 1
    /\ i + Len(p) - 1 <= Len(s)
    /\ \A k \in 1..Len(p) : s[i + k - 1] = p[k]

\* The first position at or after from where Hit holds, 0 if there is
\* none: where a left-to-right scan of a pattern finds its next match.
NextAt(from, last, Hit(_)) ==
    Bind({j \in from..last : Hit(j)},
         LAMBDA hits : IF hits = {} THEN 0 ELSE Least(hits))

\* str.find, counted from 1; 0 when pattern does not occur.
Find(text, pattern) ==
    Bind(text, LAMBDA s : Bind(pattern, LAMBDA p :
        NextAt(1, Len(s) + 1, LAMBDA i : MatchAt(s, i, p))))

\* pattern in text
Contains(text, pattern) == Find(text, pattern) # 0

\* The first position at or after from whose character is not in set
\* (Len(s)+1 when the run reaches the end): a greedy  [set]*  from there.
RunEnd(text, from, set) ==
    Bind(text, LAMBDA s : Bind(from, LAMBDA i :
        Least({j \in i..(Len(s) + 1) : j = Len(s) + 1 \/ s[j] \notin set})))

\* The first position at or after from whose character is in set: a
\* greedy  [^set]*  from there.
RunEndNot(text, from, set) ==
    Bind(text, LAMBDA s : Bind(from, LAMBDA i :
        Least({j \in i..(Len(s) + 1) : j = Len(s) + 1 \/ s[j] \in set})))

\* str.strip(chars)
StripChars(text, set) ==
    Bind(text, LAMBDA s :
        SubSeq(s, Least({j \in 1..(Len(s) + 1) : j = Len(s) + 1 \/ s[j] \notin set}),
                  Greatest({j \in 0..Len(s) : j = 0 \/ s[j] \notin set})))

\* str.strip()
Strip(text) == StripChars(text, WhiteSpace)

\* \b of the re module at the gap before position i (s is a value).
WordBoundary(s, i) ==
    LET before == i - 1 >= 1 /\ i - 1 <= Len(s) /\ s[i - 1] \in WordChar
        after  == i >= 1 /\ i <= Len(s) /\ s[i] \in WordChar
    IN  before # after

\* str.split(): the maximal runs of non-whitespace, in order.  A word
\* begins where a non-whitespace character follows whitespace or nothing.
SplitWords(text) ==
    Bind(text, LAMBDA s :
        Bind(SelectSeq([k \in 1..Len(s) |-> k],
                       LAMBDA k : s[k] \notin WhiteSpace
                                  /\ (k = 1 \/ s[k - 1] \in WhiteSpace)),
             LAMBDA starts :
                SubSeq([n \in 1..Len(starts) |->
                          SubSeq(s, starts[n], RunEndNot(s, starts[n], WhiteSpace) - 1)],
                       1, Len(starts))))

\* ' '.join(parts)
RECURSIVE JoinSpace(_)
JoinSpace(parts) ==
    IF Len(parts) = 0 THEN <<>>
    ELSE IF Len(parts) = 1 THEN parts[1]
    ELSE parts[1] \o <<" ">> \o JoinSpace(Tail(parts))

\* re.sub(r'\s+', ' ', s): of every run of whitespace only the first
\* character stays, as a space.
CollapseSpace(text) ==
    Bind(text, LAMBDA s :
        Bind(SelectSeq([k \in 1..Len(s) |-> k],
                       LAMBDA k : s[k] \notin WhiteSpace
                                  \/ k = 1 \/ s[k - 1] \notin WhiteSpace),
             LAMBDA kept :
                SubSeq([n \in 1..Len(kept) |->
                          IF s[kept[n]] \in WhiteSpace THEN " " ELSE s[kept[n]]],
                       1, Len(kept))))

\* ------------------------------------------------------- amount pattern
\* [-+]?\$?\d{1,3}(?:,\d{3})*\.\d{2}  tried at position i of the value s;
\* dollar says whether the optional \$ is part of the pattern (it is in
\* _clean_text, it is not in AMOUNT_PATTERN).  The result is the position
\* after the match, 0 when there is none.  Every repetition is followed by
\* a character outside its class, so the greedy choice is the only one
\* that can match and no backtracking is lost.
RECURSIVE GroupsEnd(_, _)
GroupsEnd(s, i) ==
    IF /\ i + 3 <= Len(s)
       /\ s[i] = ","
       /\ s[i + 1] \in Digit /\ s[i + 2] \in Digit /\ s[i + 3] \in Digit
    THEN GroupsEnd(s, i + 4)
    ELSE i

AmountEndAt(s, i, dollar) ==
    Bind(IF i <= Len(s) /\ s[i] \in {"-", "+"} THEN i + 1 ELSE i, LAMBDA a :
    Bind(IF dollar /\ a <= Len(s) /\ s[a] = "$" THEN a + 1 ELSE a, LAMBDA b :
    Bind(RunEnd(s, b, Digit), LAMBDA c :
    Bind(GroupsEnd(s, c), LAMBDA g :
        IF /\ c - b >= 1
           /\ c - b <= 3
           /\ g + 2 <= Len(s)
           /\ s[g] = "."
           /\ s[g + 1] \in Digit
           /\ s[g + 2] \in Digit
        THEN g + 3
        ELSE 0))))

\* The spans [b, e) of the non-overlapping matches in the value s, from
\* position i on, leftmost first, as a left-to-right scan finds them.
RECURSIVE AmountSpans(_, _, _)
AmountSpans(s, i, dollar) ==
    Bind(NextAt(i, Len(s), LAMBDA j : AmountEndAt(s, j, dollar) # 0), LAMBDA b :
        IF b = 0 THEN <<>>
        ELSE Bind(AmountEndAt(s, b, dollar), LAMBDA e :
                <<[b |-> b, e |-> e]>> \o AmountSpans(s, e, dollar)))

\* The text of the spans, and the text outside them.
Matched(s, spans) ==
    SubSeq([n \in 1..Len(spans) |-> SubSeq(s, spans[n].b, spans[n].e - 1)],
           1, Len(spans))

Unmatched(s, spans) ==
    SelectSeq([k \in 1..Len(s) |-> k],
              LAMBDA k : \A n \in 1..Len(spans) : k < spans[n].b \/ k >= spans[n].e)

Removed(s, spans) ==
    Bind(Unmatched(s, spans), LAMBDA kept :
        SubSeq([n \in 1..Len(kept) |-> s[kept[n]]], 1, Len(kept)))

\* pattern.findall(text)
AmountFindall(text, dollar) ==
    Bind(text, LAMBDA s : Bind(AmountSpans(s, 1, dollar), LAMBDA spans :
        Matched(s, spans)))

\* pattern.sub('', text)
AmountSub(text, dollar) ==
    Bind(text, LAMBDA s : Bind(AmountSpans(s, 1, dollar), LAMBDA spans :
        Removed(s, spans)))

\* str.replace(',', '')
StripCommas(s) == SelectSeq(s, LAMBDA c : c # ",")

\* ------------------------------------------------- Transaction (13-21)
\* A transaction as the constructor leaves it: the defaults of the
\* dataclass, with the given date.
Transaction(date) ==
    [date        |-> date,
     description |-> <<>>,
     currency    |-> <<"U","S","D">>,
     amount      |-> <<"0",".","0","0">>,
     fees        |-> <<"0",".","0","0">>,
     total       |-> <<"0",".","0","0">>]

\* ------------------------------------------------------ PayPalPDFParser
\* One  \d{1,2}/  at position i of the value s: the position after it, 0
\* when there is none.
DayEnd(s, i) ==
    IF i + 2 <= Len(s) /\ s[i] \in Digit /\ s[i + 1] \in Digit /\ s[i + 2] = "/"
    THEN i + 3
    ELSE IF i + 1 <= Len(s) /\ s[i] \in Digit /\ s[i + 1] = "/"
    THEN i + 2
    ELSE 0

\* DATE_PATTERN.match(line): ^(\d{1,2}/\d{1,2}/\d{4}); the position after
\* the match, 0 when the line does not begin with a date.
DATE_PATTERN(line) ==
    Bind(line, LAMBDA s :
    Bind(DayEnd(s, 1), LAMBDA m :
    Bind(IF m = 0 THEN 0 ELSE DayEnd(s, m), LAMBDA d :
        IF /\ d # 0
           /\ d + 3 <= Len(s)
           /\ \A k \in 0..3 : s[d + k] \in Digit
        THEN d + 4
        ELSE 0)))

\* AMOUNT_PATTERN.findall(text) and AMOUNT_PATTERN.sub('', text)
AMOUNT_PATTERN(text) == AmountFindall(text, FALSE)

AMOUNT_PATTERN_sub(text) == AmountSub(text, FALSE)

\* ^literal\s*$ under re.I, on the lowered line (a value).
WholeLine(low, literal) ==
    Bind(LowerStr(literal), LAMBDA p :
        /\ MatchAt(low, 1, p)
        /\ RunEnd(low, Len(p) + 1, WhiteSpace) > Len(low))

\* The eleven JUNK_PATTERNS, in the order of the source, each as
\* re.search(pattern, line, re.I), on the lowered line (a value).
JUNK_PATTERNS(low) ==
    << Contains(low, LowerStr(<<"P","a","y","P","a","l"," ","B","a","l","a","n","c","e">>)),
       Contains(low, LowerStr(<<"I","D",":">>)),
       Contains(low, LowerStr(<<"I","n","d","i","v","i","d","u","a","l"," ","I","D",":">>)),
       Contains(low, LowerStr(<<"R","e","f"," ","I","D",":">>)),
       WholeLine(low, <<"G","e","n","e","r","a","l"," ","P","a","y","P","a","l"," ","D","e","b","i","t"," ","M","a","s","t","e","r","c","a","r","d">>),
       WholeLine(low, <<"P","r","e","A","p","p","r","o","v","e","d"," ","P","a","y","m","e","n","t"," ","B","i","l","l"," ","U","s","e","r"," ","P","a","y","m","e","n","t",":">>),
       WholeLine(low, <<"G","e","n","e","r","a","l">>),
       WholeLine(low, <<"T","r","a","n","s","a","c","t","i","o","n",":">>) \/ WholeLine(low, <<"T","r","a","n","s","a","c","t","i","o","n">>),
       WholeLine(low, <<"D","i","r","e","c","t"," ","D","e","p","o","s","i","t",":">>) \/ WholeLine(low, <<"D","i","r","e","c","t"," ","D","e","p","o","s","i","t">>),
       WholeLine(low, <<"-">>) \/ WholeLine(low, <<BULLET>>),
       WholeLine(low, <<>>) >>

_is_junk_line(line) ==
    Bind(LowerStr(line), LAMBDA low :
    Bind(JUNK_PATTERNS(low), LAMBDA matches :
        \E k \in 1..Len(matches) : matches[k]))

\* _clean_description(parts)
_clean_description(parts) ==
    CollapseSpace(Strip(JoinSpace(parts)))

\* ------------------------------------------------------- PayeeExtractor
NOISE_KEYWORDS ==
    { <<"p","a","y","p","a","l">>, <<"b","a","l","a","n","c","e">>, <<"u","s","d">>, <<"i","d",":">>, <<"r","e","f"," ","i","d",":">>,
      <<"i","n","d","i","v","i","d","u","a","l"," ","i","d",":">>, <<"g","e","n","e","r","a","l">>, <<"m","a","s","t","e","r","c","a","r","d">>, <<"d","e","b","i","t">>,
      <<"p","r","e","a","p","p","r","o","v","e","d"," ","p","a","y","m","e","n","t">>, <<"b","i","l","l"," ","u","s","e","r"," ","p","a","y","m","e","n","t">> }

PAYEE_PREFIXES ==
    << <<"T","r","a","n","s","a","c","t","i","o","n",":">>,
       <<"D","i","r","e","c","t"," ","D","e","p","o","s","i","t",":">>,
       <<"P","r","e","A","p","p","r","o","v","e","d"," ","P","a","y","m","e","n","t"," ","B","i","l","l"," ","U","s","e","r"," ","P","a","y","m","e","n","t",":">>,
       <<"P","a","y","m","e","n","t"," ","t","o",":">>,
       <<"P","a","y","m","e","n","t"," ","f","r","o","m",":">> >>

\* The value that stands for an exception leaving extract (chunk[0] of an
\* empty chunk is the only expression of the extractor that can raise on a
\* string); it is no text the functions can produce.
IndexError == <<"IndexError">>

\* The sentinel of line 67 and line 118.
Unknown == <<"U","n","k","n","o","w","n">>

\* \b(ID|Ref ID|Individual ID):\s*\S+  under re.I, tried at position i of
\* the value s (low is s lowered): the position after the match, 0 when
\* there is none.
IdLabels == << <<"i","d">>, <<"r","e","f"," ","i","d">>, <<"i","n","d","i","v","i","d","u","a","l"," ","i","d">> >>

IdLabelEndAt(s, low, i, label) ==
    Bind(i + Len(label), LAMBDA c :
        IF MatchAt(low, i, label) /\ c <= Len(s) /\ s[c] = ":"
        THEN Bind(RunEnd(s, c + 1, WhiteSpace), LAMBDA w :
             Bind(RunEndNot(s, w, WhiteSpace), LAMBDA e :
                IF e > w THEN e ELSE 0))
        ELSE 0)

IdEndAt(s, low, i) ==
    IF ~WordBoundary(s, i) THEN 0
    ELSE Bind(<<IdLabelEndAt(s, low, i, IdLabels[1]),
                IdLabelEndAt(s, low, i, IdLabels[2]),
                IdLabelEndAt(s, low, i, IdLabels[3])>>, LAMBDA ends :
            IF ends[1] # 0 THEN ends[1]
            ELSE IF ends[2] # 0 THEN ends[2]
            ELSE ends[3])

RECURSIVE IdSpans(_, _, _)
IdSpans(s, low, i) ==
    Bind(NextAt(i, Len(s), LAMBDA j : IdEndAt(s, low, j) # 0), LAMBDA b :
        IF b = 0 THEN <<>>
        ELSE Bind(IdEndAt(s, low, b), LAMBDA e :
                <<[b |-> b, e |-> e]>> \o IdSpans(s, low, e)))

\* re.sub of the ID pattern by ''
IdSub(text) ==
    Bind(text, LAMBDA s : Bind(IdSpans(s, LowerStr(s), 1), LAMBDA spans :
        Removed(s, spans)))

\* The characters of cleaned.strip(' |,.-•').
StripSet == {" ", "|", ",", ".", "-", BULLET}

\* [w for w in words if w.lower() not in NOISE_KEYWORDS]
DropNoise(words) ==
    SelectSeq(words, LAMBDA w : LowerStr(w) \notin NOISE_KEYWORDS)

_clean_text(text) ==
    Bind(AmountSub(text, TRUE), LAMBDA noAmounts :
    Bind(IdSub(noAmounts), LAMBDA noIds :
    Bind(StripChars(noIds, StripSet), LAMBDA cleaned :
    Bind(SplitWords(cleaned), LAMBDA words :
        IF \A k \in 1..Len(words) : LowerStr(words[k]) \in NOISE_KEYWORDS
        THEN <<>>
        ELSE CollapseSpace(Strip(JoinSpace(DropNoise(words))))))))

\* The two location patterns and the three merchant patterns of
\* _score_chunk, each as re.search(p, chunk) on the value s.
IsCityState(s) ==
    \E i \in 1..Len(s) :
        /\ WordBoundary(s, i)
        /\ s[i] \in Upper
        /\ \E e \in {RunEnd(s, i + 1, Lower)} :
            /\ e > i + 1
            /\ e <= Len(s) /\ s[e] = ","
            /\ \E w \in {RunEnd(s, e + 1, WhiteSpace)} :
                /\ w + 1 <= Len(s) /\ s[w] \in Upper /\ s[w + 1] \in Upper
                /\ WordBoundary(s, w + 2)

IsStateZip(s) ==
    \E i \in 1..Len(s) :
        /\ WordBoundary(s, i)
        /\ i + 1 <= Len(s) /\ s[i] \in Upper /\ s[i + 1] \in Upper
        /\ \E w \in {RunEnd(s, i + 2, WhiteSpace)} :
            /\ w + 4 <= Len(s)
            /\ \A k \in 0..4 : s[w + k] \in Digit
            /\ WordBoundary(s, w + 5)

IsCapitalWords(s) ==
    \E i \in 1..Len(s) :
        /\ WordBoundary(s, i)
        /\ s[i] \in Upper
        /\ \E e \in {RunEnd(s, i, Upper)} :
           \E w \in {RunEnd(s, e, WhiteSpace)} :
                /\ w > e
                /\ w <= Len(s) /\ s[w] \in Upper

IsInvoice(s) ==
    \E i \in 1..Len(s) :
        /\ WordBoundary(s, i)
        /\ MatchAt(s, i, <<"I","-","n">>)
        /\ \E e \in {RunEnd(s, i + 3, Digit)} :
            /\ e > i + 3
            /\ WordBoundary(s, e)

IsReference(s) ==
    \E i \in 1..Len(s) :
        /\ WordBoundary(s, i)
        /\ s[i] = "#"
        /\ \E e \in {RunEnd(s, i + 1, Digit)} :
            /\ e > i + 1
            /\ WordBoundary(s, e)

\* sum(1 for c in chunk if c.isupper())
CountUpper(chunk) == Cardinality({k \in 1..Len(chunk) : chunk[k] \in Upper})

\* sum(1 for word in words if word in NOISE_KEYWORDS)
CountNoise(words) == Cardinality({k \in 1..Len(words) : words[k] \in NOISE_KEYWORDS})

\* _score_chunk(chunk): the score it returns, or raised when chunk[0] is
\* evaluated on an empty chunk (an IndexError).
_score_chunk(chunk) ==
    Bind(chunk, LAMBDA s :
        LET length   == IF Len(s) > 10 THEN 5
                        ELSE IF Len(s) > 5 THEN 2
                        ELSE 0
            first    == IF s[1] \in Upper THEN 3 ELSE 0
            capitals == IF CountUpper(s) >= 3 THEN 4 ELSE 0
            location == IF IsCityState(s) \/ IsStateZip(s) THEN 6 ELSE 0
            merchant == IF IsCapitalWords(s) \/ IsInvoice(s) \/ IsReference(s)
                        THEN 3 ELSE 0
            noise    == Bind(SplitWords(LowerStr(s)), LAMBDA words : CountNoise(words))
        IN  IF Len(s) <= 5 /\ Len(s) < 3 THEN [raised |-> FALSE, score |-> 0]
            ELSE IF Len(s) = 0 THEN [raised |-> TRUE, score |-> 0]
            ELSE [raised |-> FALSE,
                  score  |-> length + first + capitals + location + merchant - noise * 2])

\* The delimiter  \s{2,}|[|•]  tried at position i of the value s: the
\* position after the match, 0 when there is none.
DelimEndAt(s, i) ==
    Bind(RunEnd(s, i, WhiteSpace), LAMBDA e :
        IF e - i >= 2 THEN e
        ELSE IF i <= Len(s) /\ s[i] \in {"|", BULLET} THEN i + 1
        ELSE 0)

\* re.split(r'\s{2,}|[|•]', s) from position i of the value s on.
RECURSIVE SplitChunks(_, _)
SplitChunks(s, i) ==
    Bind(NextAt(i, Len(s), LAMBDA j : DelimEndAt(s, j) # 0), LAMBDA b :
        IF b = 0 THEN <<SubSeq(s, i, Len(s))>>
        ELSE Bind(DelimEndAt(s, b), LAMBDA e :
                <<SubSeq(s, i, b - 1)>> \o SplitChunks(s, e)))

\* The loop of lines 102-110 over the cleaned chunks: what _score_chunk
\* says of every chunk that is not empty.
Scores(chunks) ==
    Bind(SubSeq([k \in 1..Len(chunks) |-> _clean_text(chunks[k])], 1, Len(chunks)),
         LAMBDA cleaned :
            Bind(SelectSeq(cleaned, LAMBDA c : c # <<>>), LAMBDA kept :
                SubSeq([k \in 1..Len(kept) |->
                          [chunk  |-> kept[k],
                           raised |-> _score_chunk(kept[k]).raised,
                           score  |-> _score_chunk(kept[k]).score]],
                       1, Len(kept))))

\* scored_chunks, in the order of the chunks.
ScoredChunks(scores) == SelectSeq(scores, LAMBDA c : c.score > 0)

\* scored_chunks.sort(reverse=True, key=score)[0]: the sort is stable, so
\* among the chunks of the highest score the earliest one comes first.
BestChunk(scored) ==
    LET k == CHOOSE k \in 1..Len(scored) :
                /\ \A j \in 1..Len(scored) : scored[j].score <= scored[k].score
                /\ \A j \in 1..(k - 1) : scored[j].score < scored[k].score
    IN  scored[k].chunk

\* text[:n]
Truncate(text, n) ==
    Bind(text, LAMBDA s : SubSeq(s, 1, IF Len(s) < n THEN Len(s) ELSE n))

\* _extract_intelligent without the  or 'Unknown'  of line 118.
_extract_intelligent_noSentinel(description) ==
    Bind(description, LAMBDA d :
    Bind(Scores(SplitChunks(d, 1)), LAMBDA scores :
    Bind(ScoredChunks(scores), LAMBDA scored_chunks :
        IF \E k \in 1..Len(scores) : scores[k].raised THEN IndexError
        ELSE IF scored_chunks # <<>> THEN BestChunk(scored_chunks)
        ELSE Truncate(_clean_text(d), 80))))

_extract_intelligent(description) ==
    Bind(description, LAMBDA d :
    Bind(Scores(SplitChunks(d, 1)), LAMBDA scores :
    Bind(ScoredChunks(scores), LAMBDA scored_chunks :
        IF \E k \in 1..Len(scores) : scores[k].raised THEN IndexError
        ELSE IF scored_chunks # <<>> THEN BestChunk(scored_chunks)
        ELSE Bind(Truncate(_clean_text(d), 80), LAMBDA fallback :
                IF fallback # <<>> THEN fallback ELSE Unknown))))

\* The loop of _extract_after_prefix from the k-th prefix on, on the value
\* text (low is text lowered); <<>> stands for None (both are false in
\* the test of line 71).
RECURSIVE AfterPrefixFrom(_, _, _)
AfterPrefixFrom(text, low, k) ==
    IF k > Len(PAYEE_PREFIXES) THEN <<>>
    ELSE Bind(PAYEE_PREFIXES[k], LAMBDA prefix :
         Bind(Find(low, LowerStr(prefix)), LAMBDA idx :
            IF idx = 0 THEN AfterPrefixFrom(text, low, k + 1)
            ELSE Bind(_clean_text(Strip(From(text, idx + Len(prefix)))), LAMBDA cleaned :
                    IF cleaned # <<>> THEN cleaned
                    ELSE AfterPrefixFrom(text, low, k + 1))))

_extract_after_prefix(text) ==
    Bind(text, LAMBDA s : Bind(LowerStr(s), LAMBDA low : AfterPrefixFrom(s, low, 1)))

\* extract with the chunk scoring ahead of the prefixes.
extract_scoreFirst(description) ==
    Bind(description, LAMBDA d :
        IF d = <<>> \/ Strip(d) = <<>> THEN Unknown
        ELSE Bind(_extract_intelligent(d), LAMBDA payee :
                IF payee # Unknown THEN payee
                ELSE IF _extract_after_prefix(d) # <<>> THEN _extract_after_prefix(d)
                ELSE Unknown))

extract(description) ==
    Bind(description, LAMBDA d :
        IF d = <<>> \/ Strip(d) = <<>> THEN Unknown
        ELSE Bind(_extract_after_prefix(d), LAMBDA payee :
                IF payee # <<>> THEN payee
                ELSE _extract_intelligent(d)))

\* --------------------------------------------------------------- bounds
\* The most pages a document has and the most text lines all its pages
\* hold together.
MaxPages == 2

MaxLines == 3

\* The most fragments a description handed to the extractor is built of.
MaxFrags == 3

\* The text lines a page can hold, as page.extract_text() returns them.
RawLines ==
    { <<"1","2","/","0","3","/","2","0","2","5">>,
      <<"1","/","2","/","2","0","2","5"," ","P","a","y","m","e","n","t"," ","t","o",":"," ","A","c","m","e"," ","C","o","r","p"," ","-","2","5",".","0","0">>,
      <<"F","e","e"," ","2",".","5","0"," ","T","o","t","a","l"," ","1",",","0","1","9",".","9","9">>,
      <<" ","D","i","r","e","c","t"," ","D","e","p","o","s","i","t",":"," ","A","C","M","E"," ","P","A","Y","R","O","L","L">>,
      <<"1","2","/","0","1","/","2","0","2","5"," ","P","a","y","P","a","l"," ","B","a","l","a","n","c","e">>,
      <<"-"," ","a","b">>,
      <<" "," ">> }

\* The texts of a page of at most n lines (the empty one is the "" of
\* line 231).
PageTexts(n) == UNION {[1..k -> RawLines] : k \in 0..n}

\* The underlying causes of a fault while the pages are walked.
Causes == {"PDFSyntaxError", "FileNotFoundError"}

\* The fragments descriptions are built of.
Fragments ==
    { <<"P","a","y","m","e","n","t"," ","t","o",":"," ","A","c","m","e"," ","C","o","r","p">>,
      <<"I","S","L","A","N","D"," ","V","I","B","E","S"," ","L","O","U","N","G","E">>,
      <<" ","|"," ">>,
      <<" "," ">>,
      <<"T","r","a","n","s","a","c","t","i","o","n",":">>,
      <<"P","a","y","P","a","l">>,
      <<"-","2","5",".","0","0">> }

RECURSIVE Concat(_)
Concat(parts) ==
    IF Len(parts) = 0 THEN <<>> ELSE Head(parts) \o Concat(Tail(parts))

Descriptions ==
    {Concat(parts) : parts \in UNION {[1..k -> Fragments] : k \in 0..MaxFrags}}

\* ---------------------------------------------------------------- state
VARIABLES
    pc,                  \* where parse_paypal_pdf is
    pathExists,          \* self.pdf_path.exists()
    pages,               \* the page texts extracted so far, in order
    lines,               \* lines of the page being walked (line 232)
    idx,                 \* position in lines of the next line to process
    transactions,        \* parse: transactions
    current_transaction, \* parse: <<>> for None, <<t>> for a transaction
    desc_parts,          \* parse: desc_parts
    result,              \* <<>> until parse returns, then <<its value>>
    exc,                 \* <<>> or <<the exception that is propagating>>
    fault,               \* <<>> or <<the fault met while walking the pages>>
    csv,                 \* <<>> until the table is written, then <<rows>>
    printed,             \* the messages printed so far
    description,         \* extractor: the description handed to it
    trail,               \* extractor: x, _clean_text(x), ... as computed
    payee                \* extractor: <<>> or <<extract(description)>>

parserVars == <<pc, pathExists, pages, lines, idx, transactions,
                current_transaction, desc_parts, result, exc, fault, csv,
                printed>>

extractVars == <<description, trail, payee>>

vars == <<parserVars, extractVars>>

\* ------------------------------------------- PayPalPDFParser.parse steps
\* [line.strip() for line in text.splitlines() if line.strip()]
ExtractLines(text) ==
    LET stripped == SubSeq([k \in 1..Len(text) |-> Strip(text[k])], 1, Len(text))
    IN  SelectSeq(stripped, LAMBDA l : l # <<>>)

\* Classify with the test for an open transaction ahead of the test for a
\* date: a date line met while a transaction is open continues it.
Classify_openFirst(line, current) ==
    IF _is_junk_line(line) THEN "junk"
    ELSE IF current # <<>> THEN "continuation"
    ELSE IF DATE_PATTERN(line) # 0 THEN "date"
    ELSE "dropped"

\* Classify with the test for a date ahead of the test for junk.
Classify_dateFirst(line, current) ==
    IF DATE_PATTERN(line) # 0 THEN "date"
    ELSE IF _is_junk_line(line) THEN "junk"
    ELSE IF current # <<>> THEN "continuation"
    ELSE "dropped"

\* The branch of the loop body a line takes (lines 236, 241, 259).
Classify(line, current) ==
    IF _is_junk_line(line) THEN "junk"
    ELSE IF DATE_PATTERN(line) # 0 THEN "date"
    ELSE IF current # <<>> THEN "continuation"
    ELSE "dropped"

\* rest = line[date_match.end():].strip()
AnchorRest(line) == Bind(line, LAMBDA s : Strip(From(s, DATE_PATTERN(s))))

\* Lines 243-245: the previous transaction is saved.
SavePrevious(saved, current, parts) ==
    IF current # <<>>
    THEN Append(saved, [current[1] EXCEPT !.description = _clean_description(parts)])
    ELSE saved

\* Lines 248 and 253-256: the transaction a date line starts.
StartTransaction(line) ==
    Bind(Transaction(SubSeq(line, 1, DATE_PATTERN(line) - 1)), LAMBDA t :
    Bind(AMOUNT_PATTERN(AnchorRest(line)), LAMBDA amounts :
        IF amounts # <<>>
        THEN Bind(StripCommas(amounts[Len(amounts)]), LAMBDA amount :
                [t EXCEPT !.amount = amount, !.total = amount])
        ELSE t))

\* Line 250
StartDescription(rest) == IF rest # <<>> THEN <<rest>> ELSE <<>>

\* AmountIsUnset without the test: every amount found overwrites.
AmountIsUnset_always(t) == TRUE

\* not current_transaction.amount
AmountIsUnset(t) == t.amount = <<>>

\* Lines 260-263: what a continuation line does to the transaction.
ContinueTransaction(t, line) ==
    Bind(AMOUNT_PATTERN(line), LAMBDA amounts :
        IF amounts # <<>> /\ AmountIsUnset(t)
        THEN Bind(StripCommas(amounts[Len(amounts)]), LAMBDA amount :
                [t EXCEPT !.amount = amount, !.total = amount])
        ELSE t)

\* Lines 266-267: the text of a continuation line.
ContinuationText(line) ==
    Bind(Strip(AMOUNT_PATTERN_sub(line)), LAMBDA clean_text :
        IF clean_text # <<>> /\ clean_text[1] \in {"-", BULLET}
        THEN From(clean_text, RunEnd(clean_text, 2, WhiteSpace))
        ELSE clean_text)

\* Lines 268-269
ContinueDescription(parts, line) ==
    Bind(ContinuationText(line), LAMBDA clean_text :
        IF Len(clean_text) > 2 THEN Append(parts, clean_text) ELSE parts)

\* SaveFinal that forgets the transaction still open at the end.
SaveFinal_dropped(saved, current, parts) == saved

\* Lines 272-274: the final transaction is saved.
SaveFinal(saved, current, parts) ==
    IF current # <<>>
    THEN Append(saved, [current[1] EXCEPT !.description = _clean_description(parts)])
    ELSE saved

\* ParseFailure that swallows the fault and returns what was saved so far.
ParseFailure_partial(saved, cause) ==
    [result |-> <<saved>>,
     exc    |-> <<>>]

\* Lines 276-277: what parse leaves behind when a fault stops it.
ParseFailure(saved, cause) ==
    [result |-> <<>>,
     exc    |-> <<[type |-> "RuntimeError", cause |-> cause]>>]

\* Transaction.to_row
to_row(t) ==
    <<t.date, t.description, t.currency, t.amount, t.fees, t.total,
      extract(t.description)>>

HEADERS ==
    << <<"D","a","t","e">>, <<"F","u","l","l"," ","D","e","s","c","r","i","p","t","i","o","n">>, <<"C","u","r","r","e","n","c","y">>, <<"A","m","o","u","n","t">>, <<"F","e","e","s">>,
       <<"T","o","t","a","l">>, <<"C","l","e","a","n"," ","T","r","a","n","s","a","c","t","i","o","n","/","P","a","y","e","e">> >>

\* The number of text lines of the pages extracted so far.
RECURSIVE LinesIn(_)
LinesIn(texts) ==
    IF Len(texts) = 0 THEN 0 ELSE Len(Head(texts)) + LinesIn(Tail(texts))

\* The extractor is not in use.
ExtractorIdle ==
    /\ description = <<>>
    /\ trail = <<>>
    /\ payee = <<>>

Init ==
    /\ pc = "start"
    /\ pathExists \in BOOLEAN
    /\ pages = <<>>
    /\ lines = <<>>
    /\ idx = 1
    /\ transactions = <<>>
    /\ current_transaction = <<>>
    /\ desc_parts = <<>>
    /\ result = <<>>
    /\ exc = <<>>
    /\ fault = <<>>
    /\ csv = <<>>
    /\ printed = <<>>
    /\ ExtractorIdle

\* parse_paypal_pdf, lines 332 and 336-337: the constructor raises
\* FileNotFoundError, which is caught and printed.
InputNotFound ==
    /\ pc = "start"
    /\ ~pathExists
    /\ pc' = "reported"
    /\ printed' = Append(printed, "Error: PDF file not found")
    /\ UNCHANGED <<pathExists, pages, lines, idx, transactions,
                   current_transaction, desc_parts, result, exc, csv>>
    /\ UNCHANGED <<fault, extractVars>>

\* Lines 332-333 and 224-229: the parser is built and parse begins.
BeginParse ==
    /\ pc = "start"
    /\ pathExists
    /\ pc' = "pages"
    /\ transactions' = <<>>
    /\ current_transaction' = <<>>
    /\ desc_parts' = <<>>
    /\ UNCHANGED <<pathExists, pages, lines, idx, result, exc, csv, printed>>
    /\ UNCHANGED <<fault, extractVars>>

AtPageEnd == pc = "pages" /\ idx > Len(lines)

\* Lines 230-232: the next page is taken and its lines are extracted.
NextPage ==
    /\ AtPageEnd
    /\ Len(pages) < MaxPages
    /\ \E text \in PageTexts(MaxLines - LinesIn(pages)) :
        /\ pages' = Append(pages, text)
        /\ lines' = ExtractLines(text)
    /\ idx' = 1
    /\ UNCHANGED <<pc, pathExists, transactions, current_transaction,
                   desc_parts, result, exc, csv, printed>>
    /\ UNCHANGED <<fault, extractVars>>

AtLine(kind) ==
    /\ pc = "pages"
    /\ idx <= Len(lines)
    /\ Classify(lines[idx], current_transaction) = kind

\* Lines 236-237
JunkLine ==
    /\ AtLine("junk")
    /\ idx' = idx + 1
    /\ UNCHANGED <<pc, pathExists, pages, lines, transactions,
                   current_transaction, desc_parts, result, exc, csv, printed>>
    /\ UNCHANGED <<fault, extractVars>>

\* Lines 241-256
DateLine ==
    /\ AtLine("date")
    /\ transactions' = SavePrevious(transactions, current_transaction, desc_parts)
    /\ current_transaction' = <<StartTransaction(lines[idx])>>
    /\ desc_parts' = StartDescription(AnchorRest(lines[idx]))
    /\ idx' = idx + 1
    /\ UNCHANGED <<pc, pathExists, pages, lines, result, exc, csv, printed>>
    /\ UNCHANGED <<fault, extractVars>>

\* Lines 259-269
ContinuationLine ==
    /\ AtLine("continuation")
    /\ current_transaction' = <<ContinueTransaction(current_transaction[1], lines[idx])>>
    /\ desc_parts' = ContinueDescription(desc_parts, lines[idx])
    /\ idx' = idx + 1
    /\ UNCHANGED <<pc, pathExists, pages, lines, transactions, result, exc,
                   csv, printed>>
    /\ UNCHANGED <<fault, extractVars>>

\* A line that is no junk, begins with no date and finds no transaction
\* open takes no branch of the loop body.
DroppedLine ==
    /\ AtLine("dropped")
    /\ idx' = idx + 1
    /\ UNCHANGED <<pc, pathExists, pages, lines, transactions,
                   current_transaction, desc_parts, result, exc, csv, printed>>
    /\ UNCHANGED <<fault, extractVars>>

\* Lines 271-274 and 279: the pages are exhausted and parse returns.
EndOfInput ==
    /\ AtPageEnd
    /\ transactions' = SaveFinal(transactions, current_transaction, desc_parts)
    /\ result' = <<transactions'>>
    /\ pc' = "returned"
    /\ UNCHANGED <<pathExists, pages, lines, idx, current_transaction,
                   desc_parts, exc, csv, printed>>
    /\ UNCHANGED <<fault, extractVars>>

\* Lines 229-231 and 276-277: opening the document or extracting the text
\* of the next page raises, and parse raises RuntimeError from it.
PageFault ==
    /\ AtPageEnd
    /\ Len(pages) < MaxPages
    /\ \E cause \in Causes :
        /\ fault' = <<[page |-> Len(pages) + 1, cause |-> cause]>>
        /\ result' = ParseFailure(transactions, cause).result
        /\ exc' = ParseFailure(transactions, cause).exc
    /\ pc' = IF result' = <<>> THEN "raised" ELSE "returned"
    /\ UNCHANGED <<pathExists, pages, lines, idx, transactions,
                   current_transaction, desc_parts, csv, printed>>
    /\ UNCHANGED extractVars

\* parse_paypal_pdf line 334 and CSVWriter.write, lines 311-317.
WriteTable ==
    /\ pc = "returned"
    /\ csv' = <<<<HEADERS>> \o [k \in 1..Len(result[1]) |-> to_row(result[1][k])]>>
    /\ printed' = printed \o <<"Extracted transactions", "Clean payee column added">>
    /\ pc' = "written"
    /\ UNCHANGED <<pathExists, pages, lines, idx, transactions,
                   current_transaction, desc_parts, result, exc>>
    /\ UNCHANGED <<fault, extractVars>>

\* parse_paypal_pdf lines 338-340: the error is printed and raised again.
UnexpectedError ==
    /\ pc = "raised"
    /\ printed' = Append(printed, "Unexpected error")
    /\ pc' = "escaped"
    /\ UNCHANGED <<pathExists, pages, lines, idx, transactions,
                   current_transaction, desc_parts, result, exc, csv>>
    /\ UNCHANGED <<fault, extractVars>>

Next ==
    \/ InputNotFound
    \/ BeginParse
    \/ NextPage
    \/ JunkLine
    \/ DateLine
    \/ ContinuationLine
    \/ DroppedLine
    \/ EndOfInput
    \/ PageFault
    \/ WriteTable
    \/ UnexpectedError

Spec == Init /\ [][Next]_vars

\* ------------------------------------------- PayeeExtractor on its own
\* The parser is not in use.
ParserIdle ==
    /\ pc = "extractor"
    /\ pathExists = FALSE
    /\ pages = <<>>
    /\ lines = <<>>
    /\ idx = 1
    /\ transactions = <<>>
    /\ current_transaction = <<>>
    /\ desc_parts = <<>>
    /\ result = <<>>
    /\ exc = <<>>
    /\ fault = <<>>
    /\ csv = <<>>
    /\ printed = <<>>

InitExtract ==
    /\ ParserIdle
    /\ description \in Descriptions
    /\ trail = <<description>>
    /\ payee = <<>>

\* PayeeExtractor.extract(description), as Transaction.clean_payee calls it.
Extract ==
    /\ pc = "extractor"
    /\ payee = <<>>
    /\ payee' = <<extract(description)>>
    /\ UNCHANGED <<description, trail, parserVars>>

\* PayeeExtractor._clean_text on the description, then on its own result.
Clean ==
    /\ pc = "extractor"
    /\ Len(trail) < 3
    /\ trail' = Append(trail, _clean_text(trail[Len(trail)]))
    /\ UNCHANGED <<description, payee, parserVars>>

NextExtract ==
    \/ Extract
    \/ Clean

SpecExtract == InitExtract /\ [][NextExtract]_vars

\* ----------------------------------------------------------- properties
\* The lines the loop of parse has taken so far, in order.
RECURSIVE LinesOf(_)
LinesOf(texts) ==
    IF Len(texts) = 0 THEN <<>>
    ELSE ExtractLines(Head(texts)) \o LinesOf(Tail(texts))

Processed ==
    IF pages = <<>> THEN <<>>
    ELSE LinesOf(SubSeq(pages, 1, Len(pages) - 1)) \o SubSeq(lines, 1, idx - 1)

\* Those of them that are no junk.
Meaningful == SelectSeq(Processed, LAMBDA l : ~_is_junk_line(l))

IsAnchor(line) == DATE_PATTERN(line) # 0

\* The positions in seq of the lines that begin with a date.
AnchorsIn(seq) == SelectSeq([k \in 1..Len(seq) |-> k], LAMBDA k : IsAnchor(seq[k]))

\* The lines of seq after its j-th anchor and before the next.
Collected(seq, anchors, j) ==
    SubSeq(seq, anchors[j] + 1,
           IF j < Len(anchors) THEN anchors[j + 1] - 1 ELSE Len(seq))

\* The description fragments of the j-th transaction: the rest of its
\* anchor line, then of every collected line what is left without its
\* amounts and its leading marker, when that is longer than 2.
ExpectedParts(seq, anchors, j) ==
    Bind(AnchorRest(seq[anchors[j]]), LAMBDA rest :
    Bind(Collected(seq, anchors, j), LAMBDA coll :
    Bind(SubSeq([k \in 1..Len(coll) |-> ContinuationText(coll[k])], 1, Len(coll)),
         LAMBDA texts :
            (IF rest # <<>> THEN <<rest>> ELSE <<>>)
            \o SelectSeq(texts, LAMBDA t : Len(t) > 2))))

DateOf(line) == SubSeq(line, 1, DATE_PATTERN(line) - 1)

\* parse has returned its list.
Returned == pc \in {"returned", "written"}

\* The number of transactions saved when n anchors were met.
SavedOf(n) == IF Returned THEN n ELSE IF n = 0 THEN 0 ELSE n - 1

\* The last amount of a line, as the parser stores it.
LastAmount(line) ==
    Bind(AMOUNT_PATTERN(line), LAMBDA amounts : StripCommas(amounts[Len(amounts)]))

\* The loop is about to take a line that is no junk and begins with no
\* date while a transaction is open.
AtContinuation ==
    /\ pc = "pages"
    /\ idx <= Len(lines)
    /\ ~_is_junk_line(lines[idx])
    /\ ~IsAnchor(lines[idx])
    /\ current_transaction # <<>>

\* The loop is about to take a line that is no junk and begins with a date.
AtAnchor ==
    /\ pc = "pages"
    /\ idx <= Len(lines)
    /\ ~_is_junk_line(lines[idx])
    /\ IsAnchor(lines[idx])

\* An amount token was found on the anchor line of the open transaction,
\* respectively on a line collected for it since.
OpenAnchorHasAmount ==
    Bind(Meaningful, LAMBDA seq : Bind(AnchorsIn(seq), LAMBDA anchors :
        /\ anchors # <<>>
        /\ AMOUNT_PATTERN(AnchorRest(seq[anchors[Len(anchors)]])) # <<>>))

OpenCollectedHasAmount ==
    Bind(Meaningful, LAMBDA seq : Bind(AnchorsIn(seq), LAMBDA anchors :
        /\ anchors # <<>>
        /\ \E k \in (anchors[Len(anchors)] + 1)..Len(seq) : AMOUNT_PATTERN(seq[k]) # <<>>))

\* C1: while a transaction is open and no amount token was found on any of
\* its earlier lines, a continuation line that holds amount tokens sets the
\* amount and the total of the transaction to the last of them, commas
\* stripped.
C1_ContinuationSetsAmount ==
    [][ ( /\ AtContinuation
          /\ ~OpenAnchorHasAmount
          /\ ~OpenCollectedHasAmount
          /\ AMOUNT_PATTERN(lines[idx]) # <<>> )
        => /\ current_transaction' # <<>>
           /\ current_transaction'[1].amount = LastAmount(lines[idx])
           /\ current_transaction'[1].total = LastAmount(lines[idx]) ]_vars

\* C2: every line that is no junk and begins with a date yields its own
\* transaction, in the order met, with the matched text as its date; the
\* description of a transaction is made of the rest of its anchor line and
\* of the lines between its anchor and the next, and of nothing else (so a
\* line met before the first anchor is in no description).
C2_TransactionBoundary ==
    pc # "extractor" =>
    Bind(Meaningful, LAMBDA seq : Bind(AnchorsIn(seq), LAMBDA anchors :
        /\ Len(transactions) = SavedOf(Len(anchors))
        /\ \A j \in 1..Len(transactions) :
            /\ transactions[j].date = DateOf(seq[anchors[j]])
            /\ transactions[j].description
                 = _clean_description(ExpectedParts(seq, anchors, j))
        /\ (current_transaction = <<>>) = (anchors = <<>>)
        /\ anchors # <<>> =>
            /\ current_transaction[1].date = DateOf(seq[anchors[Len(anchors)]])
            /\ pc = "pages" => desc_parts = ExpectedParts(seq, anchors, Len(anchors))))

\* A line was dropped before the first anchor, two anchors followed one
\* another, and both transactions were returned.
C2_Witness ==
    /\ pc = "returned"
    /\ Len(transactions) = 2
    /\ Len(Processed) = 3
    /\ ~_is_junk_line(Processed[1]) /\ ~IsAnchor(Processed[1])
    /\ ~_is_junk_line(Processed[2]) /\ IsAnchor(Processed[2])
    /\ ~_is_junk_line(Processed[3]) /\ IsAnchor(Processed[3])

\* t occurs in s.
Occurs(s, t) == Contains(s, t)

\* C3: no amount token of a line collected for a transaction (the rest of
\* its anchor line or a continuation line) occurs in its description.
C3_NoAmountInDescription ==
    pc # "extractor" =>
    Bind(Meaningful, LAMBDA seq : Bind(AnchorsIn(seq), LAMBDA anchors :
        \A j \in 1..Len(transactions) :
            Bind(<<AnchorRest(seq[anchors[j]])>> \o Collected(seq, anchors, j),
                 LAMBDA coll :
                    \A k \in 1..Len(coll) :
                        Bind(AMOUNT_PATTERN(coll[k]), LAMBDA amounts :
                            \A n \in 1..Len(amounts) :
                                ~Occurs(transactions[j].description, amounts[n])))))

\* The amount of the open transaction has been set from a token.
OpenAmountSet ==
    /\ current_transaction # <<>>
    /\ \/ OpenAnchorHasAmount
       \/ current_transaction[1].amount # Transaction(<<>>).amount

\* C4: once the amount of the open transaction is set from a token, no
\* line taken while the transaction stays open changes its amount or its
\* total; and the total of a transaction equals its amount in every state.
C4_OneAmountPerTransaction ==
    /\ [][ (pc = "pages" /\ idx <= Len(lines) /\ OpenAmountSet /\ ~AtAnchor)
           => /\ current_transaction' # <<>>
              /\ current_transaction'[1].amount = current_transaction[1].amount
              /\ current_transaction'[1].total = current_transaction[1].total ]_vars
    /\ [](/\ \A j \in 1..Len(transactions) : transactions[j].total = transactions[j].amount
          /\ current_transaction # <<>>
                => current_transaction[1].total = current_transaction[1].amount)

\* The anchor line of the open transaction set its amount, a line with
\* amount tokens was collected since, and the amount is still the anchor's.
C4_Witness ==
    /\ pc = "pages"
    /\ OpenAnchorHasAmount
    /\ OpenCollectedHasAmount
    /\ Bind(Meaningful, LAMBDA seq : Bind(AnchorsIn(seq), LAMBDA anchors :
          current_transaction[1].amount
            = LastAmount(AnchorRest(seq[anchors[Len(anchors)]]))))

\* C5: the saved transactions only grow, by one at a time and at the end;
\* one is saved only when the next anchor line is taken or when the input
\* ends, never when a page is taken, and it is the open transaction with
\* its description assembled; a saved transaction is never changed; and
\* when parse has returned, every anchor met has its transaction in the
\* list returned, once.
C5_Lifecycle ==
    /\ [][ /\ Len(transactions') \in {Len(transactions), Len(transactions) + 1}
           /\ SubSeq(transactions', 1, Len(transactions)) = transactions
           /\ Len(transactions') = Len(transactions) + 1 =>
                /\ current_transaction # <<>>
                /\ transactions'[Len(transactions')]
                     = [current_transaction[1] EXCEPT
                          !.description = _clean_description(desc_parts)]
                /\ AtAnchor \/ (AtPageEnd /\ pc' = "returned" /\ fault' = <<>>)
                /\ pages' = pages ]_vars
    /\ [](pc # "extractor" =>
            /\ Len(transactions) = SavedOf(Len(AnchorsIn(Meaningful)))
            /\ Returned => result = <<transactions>>)

\* A transaction opened on the last line of the first page was continued
\* on the second page and returned, after an earlier one.
C5_Witness ==
    /\ pc = "returned"
    /\ Len(pages) = 2
    /\ Len(transactions) = 2
    /\ Bind(ExtractLines(pages[1]), LAMBDA first :
          /\ first # <<>>
          /\ ~_is_junk_line(first[Len(first)])
          /\ IsAnchor(first[Len(first)]))
    /\ lines # <<>>
    /\ ~_is_junk_line(lines[1])
    /\ ~IsAnchor(lines[1])

\* C6: a junk line, also one that begins with a date, starts no
\* transaction, saves none, and leaves the open transaction, the
\* description fragments and the saved transactions as they are.
C6_JunkLeavesStateAlone ==
    [][ (pc = "pages" /\ idx <= Len(lines) /\ _is_junk_line(lines[idx]))
        => UNCHANGED <<pc, current_transaction, desc_parts, transactions>> ]_vars

\* A junk line that begins with a date was taken while a transaction with
\* description fragments was open.
C6_Witness ==
    /\ pc = "pages"
    /\ idx > 1
    /\ _is_junk_line(lines[idx - 1])
    /\ IsAnchor(lines[idx - 1])
    /\ current_transaction # <<>>
    /\ desc_parts # <<>>

\* C7: extract raises nothing and returns no empty string.
C7_ExtractNeverEmpty ==
    payee # <<>> => payee[1] # <<>> /\ payee[1] # IndexError

\* A description that is not blank fell through the prefixes and the
\* chunk scoring to the sentinel.
C7_Witness ==
    /\ payee = <<Unknown>>
    /\ Strip(description) # <<>>

\* C8: cleaning a cleaned text returns it unchanged.
C8_CleanIdempotent ==
    Len(trail) = 3 => trail[3] = trail[2]

\* The first of the prefixes, in their order, that occurs in the lowered
\* text; 0 if none does.
FirstPrefix(low) ==
    NextAt(1, Len(PAYEE_PREFIXES), LAMBDA k : Contains(low, LowerStr(PAYEE_PREFIXES[k])))

\* What is left, cleaned, after the first occurrence of the k-th prefix.
CleanedAfter(d, low, k) ==
    _clean_text(Strip(From(d, Find(low, LowerStr(PAYEE_PREFIXES[k]))
                               + Len(PAYEE_PREFIXES[k]))))

\* The payee is the cleaned text after the first prefix that occurs, when
\* that text is not empty.
PrefixWins ==
    payee # <<>> =>
    Bind(description, LAMBDA d : Bind(LowerStr(d), LAMBDA low :
    Bind(FirstPrefix(low), LAMBDA k :
        k # 0 => Bind(CleanedAfter(d, low, k), LAMBDA cleaned :
                    cleaned # <<>> => payee[1] = cleaned))))

PaymentToAcme == <<"P","a","y","m","e","n","t"," ","t","o",":"," ","A","c","m","e"," ","C","o","r","p">>

\* C9 as the specification states it: the prefix wins, and a description
\* that contains "Payment to: Acme Corp" yields "Acme Corp".
C9_PrefixPriority_Original ==
    /\ PrefixWins
    /\ (payee # <<>> /\ Contains(description, PaymentToAcme))
          => payee[1] = <<"A","c","m","e"," ","C","o","r","p">>

\* The description ends with "Payment to: Acme Corp", has no "payment to:"
\* before it and no prefix of higher priority.
EndsWithPaymentToAcme ==
    Bind(description, LAMBDA d : Bind(LowerStr(d), LAMBDA low :
        /\ Len(d) >= Len(PaymentToAcme)
        /\ MatchAt(d, Len(d) - Len(PaymentToAcme) + 1, PaymentToAcme)
        /\ Find(low, LowerStr(PAYEE_PREFIXES[4])) = Len(d) - Len(PaymentToAcme) + 1
        /\ \A k \in 1..3 : ~Contains(low, LowerStr(PAYEE_PREFIXES[k]))))

\* C9, amended: the prefix wins, and a description that ends with "Payment
\* to: Acme Corp", with no earlier "Payment to:" and no prefix of higher
\* priority, yields "Acme Corp" whatever comes before.
C9_PrefixPriority ==
    /\ PrefixWins
    /\ (payee # <<>> /\ EndsWithPaymentToAcme) => payee[1] = <<"A","c","m","e"," ","C","o","r","p">>

\* A chunk that scores higher came first, and the prefix still won.
C9_Witness ==
    /\ description = <<"I","S","L","A","N","D"," ","V","I","B","E","S"," ","L","O","U","N","G","E"," ","|"," ","P","a","y","m","e","n","t"," ","t","o",":"," ","A","c","m","e"," ","C","o","r","p">>
    /\ payee = << <<"A","c","m","e"," ","C","o","r","p">> >>

\* C10: a fault while the pages are walked leaves nothing returned and
\* nothing written, and leaves parse as a RuntimeError that wraps the
\* cause and that parse_paypal_pdf reports and raises again; a source path
\* that does not exist is reported, with nothing parsed, nothing written
\* and no exception raised.
C10_ReadFailureAborts ==
    pc # "extractor" =>
    /\ fault # <<>> =>
        /\ pc \in {"raised", "escaped"}
        /\ result = <<>>
        /\ csv = <<>>
        /\ exc = <<[type |-> "RuntimeError", cause |-> fault[1].cause]>>
        /\ pc = "escaped" => printed = <<"Unexpected error">>
    /\ ~pathExists =>
        /\ pc \in {"start", "reported"}
        /\ pages = <<>> /\ transactions = <<>>
        /\ result = <<>> /\ csv = <<>> /\ exc = <<>>
        /\ pc = "reported" => printed = <<"Error: PDF file not found">>

\* The second page faulted after a transaction of the first was saved, and
\* the error has left parse_paypal_pdf.
C10_Witness ==
    /\ pc = "escaped"
    /\ fault # <<>>
    /\ fault[1].page = 2
    /\ Len(transactions) >= 1
    /\ result = <<>>
    /\ csv = <<>>
====
